---- MODULE Spec2Model ----
(***************************************************************************)
(* Task board back end: the four request handlers of                       *)
(* src/controllers/taskController.js over the Task collection.             *)
(*                                                                         *)
(* A handler runs to its next store call without interruption (one         *)
(* JavaScript thread); other requests run while it awaits the store.  A    *)
(* handler with one store call is one action, taken when the store serves  *)
(* the call.  updateTaskStatus has two store calls (findById, save) and is *)
(* two actions: UpdateBegin up to the issue of save, UpdateFinish when the *)
(* store serves it.  Every store call may fail (the handlers' catch        *)
(* blocks), and Math.random() is a free choice between the simulated       *)
(* failure and the normal path.  The response a handler sends is held in   *)
(* last until it is delivered; the next handler step is taken then.        *)
(***************************************************************************)
EXTENDS Integers, Sequences, FiniteSets, Bags, TLC

VARIABLES store,     \* the Task collection: id -> document
          clock,     \* the wall clock createdAt is read from
          inflight,  \* the bag of updateTaskStatus handlers awaiting task.save()
          last       \* the response being sent, with the request it answers

vars == <<store, clock, inflight, last>>

\* ------------------------------------------------------------------ bounds
MaxTasks == 2        \* documents ever created
MaxInFlight == 2     \* handlers that may await task.save() at once

\* --------------------------------------------------------- program constants
DoneMinDescription == 20

\* ------------------------------------------------------------------ strings
\* A string is a sequence of pieces; the piece [text, n] is text repeated n
\* times.  A piece of white space has one white-space character as its text;
\* the text of any other piece holds no white space.
Piece(text, n) == [text |-> text, n |-> n]

Chars(text) == <<Piece(text, 1)>>

Rep(n, text) == <<Piece(text, n)>>

WhiteSpace == {" ", "\t"}

\* String.prototype.length
RECURSIVE StrLen(_)
StrLen(s) ==
  IF s = <<>> THEN 0 ELSE Len(Head(s).text) * Head(s).n + StrLen(Tail(s))

RECURSIVE TrimStart(_)
TrimStart(s) ==
  IF s = <<>> THEN <<>>
  ELSE IF Head(s).text \in WhiteSpace THEN TrimStart(Tail(s)) ELSE s

RECURSIVE TrimEnd(_)
TrimEnd(s) ==
  IF s = <<>> THEN <<>>
  ELSE IF s[Len(s)].text \in WhiteSpace THEN TrimEnd(SubSeq(s, 1, Len(s) - 1)) ELSE s

\* String.prototype.trim
Trim(s) == TrimEnd(TrimStart(s))

\* A JSON body field: absent, a string, or a value of another type.
Absent == [kind |-> "absent", str |-> <<>>]
Str(s) == [kind |-> "string", str |-> s]
Other == [kind |-> "other", str |-> <<>>]

\* JavaScript truthiness of a body field (Other stands for a truthy
\* non-string such as 7 or ["Done"]).
Truthy(v) == v.kind = "other" \/ (v.kind = "string" /\ v.str # <<>>)

\* ------------------------------------------------------------ request inputs
ToDo == Chars("To-Do")
InProgress == Chars("In-Progress")
Done == Chars("Done")

validStatuses == <<ToDo, InProgress, Done>>

TitleInputs ==
  { Absent, Str(<<>>), Str(Chars(" ") \o Chars("\t") \o Rep(2, " ")),
    Str(Chars(" ") \o Chars("Fix") \o Chars(" ") \o Chars("bug") \o Chars("\t")),
    Other }

DescriptionInputs ==
  { Absent, Str(Rep(2, " ")),
    Str(Chars(" ") \o Rep(DoneMinDescription, "x") \o Chars("\t") \o Chars(" ")),
    Str(Rep(DoneMinDescription + 1, "x")),
    Other }

StatusInputs ==
  { Absent, Str(Chars("done")), Str(ToDo), Str(InProgress), Str(Done) }

\* The bodies of POST /tasks; a status in the body is not read.
CreateBodies ==
  [title : TitleInputs, description : DescriptionInputs, status : {Absent, Str(Done)}]

\* Request identifiers: 0 is a string that is no ObjectId; n >= 1 is the
\* ObjectId of the n-th created document (MaxTasks + 1: of none).
IdInputs == 0..(MaxTasks + 1)

WellFormedId(id) == id >= 1

\* ------------------------------------------------------------------ responses
\* A response: the handler, the HTTP status, the message, the request's
\* identifier and its title (createTask) or status (updateTaskStatus),
\* currentDescriptionLength and the documents of data.
Response(op, code, msg, id, arg, len, data) ==
  [op |-> op, code |-> code, msg |-> msg, id |-> id, arg |-> arg, len |-> len,
   data |-> data]

\* The messages of the failure responses.
TitleRequired == "Task title is required"
SimulatedCreate == "Simulated server error during task creation"
FailedCreate == "Failed to create task"
InvalidStatusMsg == "Invalid status. Must be one of: To-Do, In-Progress, Done"
NotFound == "Task not found"
DoneRefused == "Cannot move task to Done: Description must be longer than 20 characters"
SimulatedUpdate == "Simulated server error during status update"
FailedUpdate == "Failed to update task status"
FailedGet == "Failed to fetch task"
FailedList == "Failed to fetch tasks"

NoResponse == Response("none", 0, "", 0, Absent, 0, <<>>)

Respond(r) == last' = r

\* ------------------------------------------------------------------ the store
\* The identifier the store gives the next document.
NextId(st) == Cardinality(DOMAIN st) + 1

\* The document the Task model constructs from the fields: the identifier and
\* createdAt are assigned here, once.
NewTask(fields, id, now) ==
  [id |-> id, title |-> fields.title, description |-> fields.description,
   status |-> fields.status, createdAt |-> now]

\* FindById without the recognition of the CastError: a malformed identifier
\* ends as any other store error.
FindByIdCastUnhandled(st, id, ok) ==
  IF ~WellFormedId(id) \/ ~ok THEN "error"
  ELSE IF id \notin DOMAIN st THEN "null"
  ELSE "found"

\* Task.findById: "cast" when the identifier is no ObjectId (a CastError of
\* kind ObjectId), "error" when the store call fails, "null" when no document
\* has the identifier, "found" otherwise.
FindById(st, id, ok) ==
  IF ~WellFormedId(id) THEN "cast"
  ELSE IF ~ok THEN "error"
  ELSE IF id \notin DOMAIN st THEN "null"
  ELSE "found"

\* task.status = status: the document in memory afterwards, and whether the
\* assignment modified its status path.
SetStatus(task, status) ==
  [task |-> [task EXCEPT !.status = status], modified |-> task.status # status]

\* Save as an update without a filter on the identifier.
SaveEveryTask(st, h) ==
  IF h.modified THEN [i \in DOMAIN st |-> [st[i] EXCEPT !.status = h.task.status]]
  ELSE st

\* task.save(): the store after the write.  save() sends the modified paths
\* only; with the status unmodified it sends nothing.
Save(st, h) ==
  IF h.modified THEN [st EXCEPT ![h.task.id].status = h.task.status]
  ELSE st

\* The sort with the key's direction reversed: sort({ createdAt: 1 }).
RECURSIVE SortByCreatedAtAsc(_, _)
SortByCreatedAtAsc(st, ids) ==
  IF ids = {} THEN <<>>
  ELSE LET pick == CHOOSE i \in ids : \A j \in ids : st[i].createdAt <= st[j].createdAt
       IN <<st[pick]>> \o SortByCreatedAtAsc(st, ids \ {pick})

\* Task.find().sort({ createdAt: -1 }): the documents by descending createdAt.
RECURSIVE SortByCreatedAtDesc(_, _)
SortByCreatedAtDesc(st, ids) ==
  IF ids = {} THEN <<>>
  ELSE LET pick == CHOOSE i \in ids : \A j \in ids : st[j].createdAt <= st[i].createdAt
       IN <<st[pick]>> \o SortByCreatedAtDesc(st, ids \ {pick})

\* ------------------------------------------------------------------ createTask
\* The validation of the title without the trim.
TitleMissingNoTrim(title) == ~Truthy(title)

\* The validation of the title.
TitleMissing(title) ==
  ~Truthy(title) \/ (title.kind = "string" /\ StrLen(Trim(title.str)) = 0)

\* The fields with the status taken from the body when it has one.
CreateFieldsFromBody(body) ==
  [title |-> Trim(body.title.str),
   description |-> IF Truthy(body.description) THEN Trim(body.description.str) ELSE <<>>,
   status |-> IF Truthy(body.status) THEN body.status.str ELSE ToDo]

\* The fields createTask passes to Task.create.
CreateFields(body) ==
  [title |-> Trim(body.title.str),
   description |-> IF Truthy(body.description) THEN Trim(body.description.str) ELSE <<>>,
   status |-> ToDo]

Init ==
  /\ store = << >>
  /\ clock = 0
  /\ inflight = EmptyBag
  /\ last = NoResponse

createTask(body) ==
  /\ last = NoResponse
  /\ UNCHANGED inflight
  /\ IF TitleMissing(body.title)
       THEN /\ Respond(Response("create", 400, TitleRequired, 0, body.title, 0, <<>>))
            /\ UNCHANGED <<store, clock>>
     ELSE IF body.title.kind # "string"
       THEN \* title.trim is not a function: the catch block
            /\ Respond(Response("create", 500, FailedCreate, 0, body.title, 0, <<>>))
            /\ UNCHANGED <<store, clock>>
     ELSE \E rnd \in BOOLEAN :
       IF rnd
         THEN \* the simulated failure
              /\ Respond(Response("create", 500, SimulatedCreate, 0, body.title, 0, <<>>))
              /\ UNCHANGED <<store, clock>>
       ELSE IF Truthy(body.description) /\ body.description.kind # "string"
         THEN \* description.trim is not a function: the catch block
              /\ Respond(Response("create", 500, FailedCreate, 0, body.title, 0, <<>>))
              /\ UNCHANGED <<store, clock>>
       ELSE \E ok \in BOOLEAN :
         IF ~ok
           THEN \* Task.create rejects: the catch block (the fields have passed
                \* the handler's validation, so it is no ValidationError)
                /\ Respond(Response("create", 500, FailedCreate, 0, body.title, 0, <<>>))
                /\ UNCHANGED <<store, clock>>
           ELSE /\ Cardinality(DOMAIN store) < MaxTasks
                /\ clock' = clock + 1
                /\ LET task == NewTask(CreateFields(body), NextId(store), clock')
                   IN /\ store' = (task.id :> task) @@ store
                      /\ Respond(Response("create", 201, "", task.id, body.title, 0,
                                          <<task>>))

\* ------------------------------------------------------------ updateTaskStatus
\* The validation of the status without the membership test.
InvalidStatusPresenceOnly(status) == ~Truthy(status)

\* The validation of the target status.
InvalidStatus(status) ==
  ~Truthy(status) \/ ~(\E i \in 1..Len(validStatuses) :
                          status.kind = "string" /\ validStatuses[i] = status.str)

\* The dependency rule with < for <=.
DoneRuleOffByOne(status, task) ==
  status = Done /\ StrLen(task.description) < DoneMinDescription

\* The dependency rule with the threshold one too high.
DoneRuleTooStrict(status, task) ==
  status = Done /\ StrLen(task.description) <= DoneMinDescription + 1

\* The dependency rule of a strict workflow: Done only from In-Progress.
DoneRuleWorkflow(status, task) ==
  status = Done /\ (StrLen(task.description) <= DoneMinDescription
                     \/ task.status # InProgress)

\* The dependency rule: Done needs a description longer than 20.
DoneRuleViolated(status, task) ==
  status = Done /\ StrLen(task.description) <= DoneMinDescription

\* updateTaskStatus from the request to the issue of task.save().
UpdateBegin(id, status) ==
  /\ last = NoResponse
  /\ UNCHANGED <<store, clock>>
  /\ IF InvalidStatus(status)
       THEN /\ Respond(Response("update", 400, InvalidStatusMsg, id, status, 0, <<>>))
            /\ UNCHANGED inflight
     ELSE \E ok \in BOOLEAN :
       LET found == FindById(store, id, ok) IN
       IF found = "cast" \/ found = "null"
         THEN /\ Respond(Response("update", 404, NotFound, id, status, 0, <<>>))
              /\ UNCHANGED inflight
       ELSE IF found = "error"
         THEN /\ Respond(Response("update", 500, FailedUpdate, id, status, 0, <<>>))
              /\ UNCHANGED inflight
       ELSE IF DoneRuleViolated(status.str, store[id])
         THEN /\ Respond(Response("update", 400, DoneRefused, id, status,
                                  StrLen(store[id].description), <<>>))
              /\ UNCHANGED inflight
       ELSE \E rnd \in BOOLEAN :
         LET h == SetStatus(store[id], status.str) IN
         IF rnd
           THEN \* the simulated failure
                /\ Respond(Response("update", 500, SimulatedUpdate, id, status, 0, <<>>))
                /\ UNCHANGED inflight
         ELSE IF ~h.modified
           THEN \* save() has nothing to write and only has the store confirm
                \* that the document exists: served at once
                /\ UNCHANGED inflight
                /\ \E saved \in BOOLEAN :
                     IF saved
                       THEN Respond(Response("update", 200, "", id, status, 0, <<h.task>>))
                       ELSE Respond(Response("update", 500, FailedUpdate, id, status,
                                             0, <<>>))
         ELSE /\ BagCardinality(inflight) < MaxInFlight
              /\ inflight' = inflight (+) SetToBag({h})
              /\ UNCHANGED last

\* UpdateFinish with a save that fails after its write was applied.
UpdateFinishWriteThenFail(h, ok) ==
  /\ last = NoResponse
  /\ BagIn(h, inflight)
  /\ inflight' = inflight (-) SetToBag({h})
  /\ UNCHANGED clock
  /\ store' = Save(store, h)
  /\ IF ~ok
       THEN Respond(Response("update", 500, FailedUpdate, h.task.id,
                             Str(h.task.status), 0, <<>>))
       ELSE Respond(Response("update", 200, "", h.task.id,
                             Str(h.task.status), 0, <<h.task>>))

\* The store serves task.save(), and the response.
UpdateFinish(h, ok) ==
  /\ last = NoResponse
  /\ BagIn(h, inflight)
  /\ inflight' = inflight (-) SetToBag({h})
  /\ UNCHANGED clock
  /\ IF ~ok
       THEN /\ Respond(Response("update", 500, FailedUpdate, h.task.id,
                                Str(h.task.status), 0, <<>>))
            /\ UNCHANGED store
       ELSE /\ store' = Save(store, h)
            /\ Respond(Response("update", 200, "", h.task.id, Str(h.task.status), 0,
                                <<h.task>>))

\* ------------------------------------------------------------------ getTaskById
getTaskById(id, ok) ==
  /\ last = NoResponse
  /\ UNCHANGED <<store, clock, inflight>>
  /\ LET found == FindById(store, id, ok) IN
     IF found = "cast" \/ found = "null"
       THEN Respond(Response("getById", 404, NotFound, id, Absent, 0, <<>>))
     ELSE IF found = "error"
       THEN Respond(Response("getById", 500, FailedGet, id, Absent, 0, <<>>))
     ELSE Respond(Response("getById", 200, "", id, Absent, 0, <<store[id]>>))

\* ------------------------------------------------------------------ getAllTasks
getAllTasks(ok) ==
  /\ last = NoResponse
  /\ UNCHANGED <<store, clock, inflight>>
  /\ IF ok
       THEN Respond(Response("getAll", 200, "", 0, Absent, 0,
                             SortByCreatedAtDesc(store, DOMAIN store)))
       ELSE Respond(Response("getAll", 500, FailedList, 0, Absent, 0, <<>>))

\* res.json: the response leaves the process.
Deliver ==
  /\ last # NoResponse
  /\ last' = NoResponse
  /\ UNCHANGED <<store, clock, inflight>>

Next ==
  \/ \E body \in CreateBodies : createTask(body)
  \/ \E id \in IdInputs, status \in StatusInputs : UpdateBegin(id, status)
  \/ \E h \in BagToSet(inflight), ok \in BOOLEAN : UpdateFinish(h, ok)
  \/ \E id \in IdInputs, ok \in BOOLEAN : getTaskById(id, ok)
  \/ \E ok \in BOOLEAN : getAllTasks(ok)
  \/ Deliver

Spec == Init /\ [][Next]_vars

\* ------------------------------------------------------------------ properties
TypeOK ==
  /\ DOMAIN store = 1..Cardinality(DOMAIN store)
  /\ Cardinality(DOMAIN store) <= MaxTasks
  /\ BagCardinality(inflight) <= MaxInFlight
  /\ \A id \in DOMAIN store : store[id].id = id

ValidArgs == {Str(ToDo), Str(InProgress), Str(Done)}

DescLen(id) == StrLen(store[id].description)

\* The messages of a failed store call.
StoreFailed == {FailedCreate, FailedUpdate, FailedGet, FailedList}

\* C1: in every reachable state, under any interleaving of createTask and
\* updateTaskStatus requests (failed ones included), every stored task whose
\* status is Done has a description longer than 20.
C1_DoneNeedsLongDescription ==
  \A id \in DOMAIN store :
    store[id].status = Done => StrLen(store[id].description) > DoneMinDescription

\* Two updates of one Done task are in flight at once, and a task with a
\* description of exactly 20 is stored.
C1_Witness ==
  \E id \in DOMAIN store :
    /\ store[id].status = Done
    /\ BagCardinality(inflight) >= 2
    /\ \A h \in BagToSet(inflight) : h.task.id = id
    /\ \E other \in DOMAIN store : DescLen(other) = DoneMinDescription

C3_Original ==
  (/\ last.op \in {"getById", "update"} /\ last.id \notin DOMAIN store
   /\ last.msg \notin StoreFailed) => last.code = 404

\* C3 amended: for an identifier that refers to no stored task,
\* updateTaskStatus with a missing or unknown status responds 400; otherwise
\* getTaskById and updateTaskStatus respond 404 when the identifier is
\* malformed, and 404 or, when the lookup itself fails, 500 when it is
\* well-formed; they never respond 200.
C3_NotFoundAfterStatusCheck ==
  (last.op \in {"getById", "update"} /\ last.id \notin DOMAIN store) =>
    IF last.op = "update" /\ last.arg \notin ValidArgs THEN last.code = 400
    ELSE IF ~WellFormedId(last.id) THEN last.code = 404
    ELSE last.code = 404 \/ (last.code = 500 /\ last.msg \in StoreFailed)

\* An update to Done of a malformed identifier is answered 404 while tasks
\* are stored.
C3_Witness ==
  /\ last.op = "update" /\ last.code = 404 /\ last.arg = Str(Done)
  /\ ~WellFormedId(last.id)
  /\ DOMAIN store # {}

\* C4: updateTaskStatus with a status that is missing or not one of To-Do,
\* In-Progress, Done responds 400 and leaves the store (and the handlers in
\* flight) unchanged, whether or not the identifier refers to a stored task,
\* and without currentDescriptionLength: the check comes first.
C4_InvalidStatusRejected ==
  [][ (last'.op = "update" /\ last'.arg \notin ValidArgs) =>
        /\ last'.code = 400
        /\ last'.len = 0
        /\ store' = store
        /\ inflight' = inflight ]_vars

\* An unknown status is answered 400 for an identifier that refers to no task.
C4_Witness ==
  /\ last.op = "update" /\ last.code = 400
  /\ last.arg = Str(Chars("done"))
  /\ last.id \notin DOMAIN store
  /\ DOMAIN store # {}

BlankTitle(title) ==
  \/ title.kind = "absent"
  \/ title.kind = "string" /\ \A i \in 1..Len(title.str) : title.str[i].text \in WhiteSpace

\* C5: createTask with a title that is absent, empty or white space only
\* responds 400 and the stored tasks are the same before and after.
C5_BlankTitleRejected ==
  [][ (last'.op = "create" /\ BlankTitle(last'.arg)) =>
        (last'.code = 400 /\ store' = store) ]_vars

\* A title of white space only is answered 400 while a task is stored.
C5_Witness ==
  /\ last.op = "create" /\ last.code = 400
  /\ last.arg.kind = "string" /\ last.arg.str # <<>>
  /\ DOMAIN store # {}

\* C6: every task createTask persists is stored with status To-Do, whatever
\* the body holds, and the createdAt of a stored task is the same in every
\* later state.
C6_CreatedToDoCreatedAtFixed ==
  [][ /\ \A id \in DOMAIN store' \ DOMAIN store : store'[id].status = ToDo
      /\ \A id \in DOMAIN store :
           id \in DOMAIN store' /\ store'[id].createdAt = store[id].createdAt ]_vars

\* A task is created as To-Do after an older task has become Done.
C6_Witness ==
  /\ last.op = "create" /\ last.code = 201
  /\ store[last.id].status = ToDo
  /\ \E older \in DOMAIN store :
       store[older].createdAt < store[last.id].createdAt /\ store[older].status = Done

\* C7: an updateTaskStatus that responds with a failure (400, 404, 500) has
\* not changed the store, and one that changes a stored status responds 200
\* with the status it was asked for stored.
C7_UpdateAllOrNothing ==
  [][ /\ (last'.op = "update" /\ last'.code # 200) => store' = store
      /\ (store' # store /\ DOMAIN store' = DOMAIN store) =>
           /\ last'.op = "update" /\ last'.code = 200
           /\ store'[last'.id].status = last'.arg.str ]_vars

\* The save of an update has failed: 500, and the task does not have the
\* status asked for.
C7_Witness ==
  /\ last.op = "update" /\ last.code = 500 /\ last.msg = FailedUpdate
  /\ last.id \in DOMAIN store
  /\ last.arg \in ValidArgs
  /\ store[last.id].status # last.arg.str
  /\ store[last.id].status # ToDo

\* C8: no step removes a task or changes a stored task's id, title,
\* description or createdAt; a status changes only in an updateTaskStatus step
\* that targets that task; tasks are added by createTask only; getAllTasks and
\* getTaskById change neither the store nor the handlers in flight.
C8_Frame ==
  [][ /\ \A id \in DOMAIN store :
           /\ id \in DOMAIN store'
           /\ store'[id].id = store[id].id
           /\ store'[id].title = store[id].title
           /\ store'[id].description = store[id].description
           /\ store'[id].createdAt = store[id].createdAt
           /\ store'[id].status # store[id].status =>
                (last'.op = "update" /\ last'.id = id)
      /\ DOMAIN store' # DOMAIN store => last'.op = "create"
      /\ last'.op \in {"getAll", "getById"} => (store' = store /\ inflight' = inflight)
    ]_vars

\* An update of one task has succeeded while the other task kept To-Do.
C8_Witness ==
  /\ last.op = "update" /\ last.code = 200
  /\ store[last.id].status = InProgress
  /\ \E other \in DOMAIN store : other # last.id /\ store[other].status = ToDo

\* C9: a successful getAllTasks response holds exactly the stored tasks, each
\* once, by descending createdAt, whatever status updates have been applied.
C9_ListNewestFirst ==
  (last.op = "getAll" /\ last.code = 200) =>
    /\ Len(last.data) = Cardinality(DOMAIN store)
    /\ {last.data[i] : i \in 1..Len(last.data)} = {store[id] : id \in DOMAIN store}
    /\ \A i, j \in 1..Len(last.data) :
         i < j => last.data[i].createdAt > last.data[j].createdAt

\* The list holds two or more tasks, the oldest of them Done by a later
\* update and the newest To-Do.
C9_Witness ==
  /\ last.op = "getAll" /\ last.code = 200
  /\ Len(last.data) >= 2
  /\ last.data[Len(last.data)].status = Done
  /\ last.data[1].status = ToDo

\* C10: an update of an existing task whose target is To-Do or In-Progress,
\* or Done with a description longer than 20, is never refused (400, 404),
\* whatever the task's current status; the response is 200, or 500 on the
\* simulated failure or a failed store call.
C10_TransitionsUnconstrained ==
  [][ (/\ last'.op = "update"
       /\ last'.arg \in ValidArgs
       /\ last'.id \in DOMAIN store
       /\ last'.arg = Str(Done) => DescLen(last'.id) > DoneMinDescription)
      => last'.code \in {200, 500} ]_vars

\* A transition Done -> To-Do and a transition To-Do -> Done (skipping
\* In-Progress) are accepted and await their save.
C10_Witness ==
  /\ \E h \in BagToSet(inflight) :
       h.task.status = ToDo /\ store[h.task.id].status = Done
  /\ \E h \in BagToSet(inflight) :
       h.task.status = Done /\ store[h.task.id].status = ToDo
====
